---- MODULE Spec2Model ----
(***************************************************************************)
(* hederaCrypto.generateMultiChain (src/hederaCrypto.js): decoding of a    *)
(* user-supplied key and derivation of the BTC, FLO and HBAR entries.      *)
(* hederaAPI.sendHBAR (src/hederaBlockchainAPI.js): validation, gas         *)
(* estimation, signing and broadcast of a transfer.                        *)
(*                                                                         *)
(* Text is a sequence of one-character strings, bytes are 0..255.  The     *)
(* Base58 conversion and the hex conversions are computed digit by digit.  *)
(* The hash functions and the curve multiplication of lib.hedera.js are    *)
(* stand-ins: a 4-byte checksum computed from the payload, and tagged      *)
(* records for public keys and addresses (a tag per function, so two       *)
(* outputs are equal exactly when function and argument are).              *)
(***************************************************************************)
EXTENDS Integers, Sequences, FiniteSets, TLC

VARIABLES bitjs, coinjs, web3Loaded, ecZeroThrows, writer, call, send

vars == <<bitjs, coinjs, web3Loaded, ecZeroThrows, writer, call, send>>

(* ------------------------------ text ---------------------------------- *)

Rep(c, n) == [i \in 1..n |-> c]

Range(s) == {s[i] : i \in 1..Len(s)}

IndexOf(seq, c) ==
  IF \E i \in 1..Len(seq) : seq[i] = c
  THEN (CHOOSE i \in 1..Len(seq) : seq[i] = c) - 1
  ELSE -1

Reverse(s) == [i \in 1..Len(s) |-> s[Len(s) + 1 - i]]

RECURSIVE LeadingCount(_, _)
LeadingCount(s, c) ==
  IF s # <<>> /\ Head(s) = c THEN 1 + LeadingCount(Tail(s), c) ELSE 0

StripLeading(s, c) == SubSeq(s, LeadingCount(s, c) + 1, Len(s))

\* String.prototype.trim
trim(s) == Reverse(StripLeading(Reverse(StripLeading(s, " ")), " "))

\* String.prototype.substring(from, to) for 0 <= from <= to
substring(s, from, to) ==
  SubSeq(s, from + 1, IF to < Len(s) THEN to ELSE Len(s))

\* Array.prototype.slice(start, end): a negative end counts from the end
slice(arr, start, end) ==
  LET n == Len(arr)
      e == IF end < 0 THEN (IF n + end < 0 THEN 0 ELSE n + end)
           ELSE (IF end > n THEN n ELSE end)
  IN  SubSeq(arr, start + 1, e)

(* ------------------------------- hex ---------------------------------- *)

HexLower == <<"0","1","2","3","4","5","6","7","8","9","a","b","c","d","e","f">>
HexUpper == <<"0","1","2","3","4","5","6","7","8","9","A","B","C","D","E","F">>

IsHexChar(c) == c \in Range(HexLower) \cup Range(HexUpper)

\* /^[0-9a-fA-F]+$/.test(s)
hexOnly(s) == Len(s) > 0 /\ \A i \in 1..Len(s) : IsHexChar(s[i])

HexVal(c) == IF IndexOf(HexLower, c) >= 0 THEN IndexOf(HexLower, c)
             ELSE IndexOf(HexUpper, c)

\* parseInt(hex.substr(i, 2), 16) for i = 0, 2, 4, ...
hexToBytes(hex) ==
  [k \in 1..((Len(hex) + 1) \div 2) |->
     IF 2 * k <= Len(hex)
     THEN 16 * HexVal(hex[2 * k - 1]) + HexVal(hex[2 * k])
     ELSE HexVal(hex[2 * k - 1])]

\* b.toString(16).padStart(2, '0'), joined
bytesToHex(bytes) ==
  [i \in 1..(2 * Len(bytes)) |->
     LET b == bytes[(i + 1) \div 2]
     IN  IF i % 2 = 1 THEN HexLower[(b \div 16) + 1] ELSE HexLower[(b % 16) + 1]]

(* ------------------------------ Base58 -------------------------------- *)

B58Alphabet ==
  <<"1","2","3","4","5","6","7","8","9",
    "A","B","C","D","E","F","G","H","J","K","L","M","N","P","Q","R","S","T",
    "U","V","W","X","Y","Z",
    "a","b","c","d","e","f","g","h","i","j","k","m","n","o","p","q","r","s",
    "t","u","v","w","x","y","z">>

B58Base == Len(B58Alphabet)

\* A number as its digits in the given base, least significant first:
\* the number times m plus a.
RECURSIVE MulAddLE(_, _, _, _)
MulAddLE(le, base, m, a) ==
  IF le = <<>>
  THEN (IF a = 0 THEN <<>> ELSE <<a % base>> \o MulAddLE(<<>>, base, m, a \div base))
  ELSE LET v == Head(le) * m + a
       IN  <<v % base>> \o MulAddLE(Tail(le), base, m, v \div base)

\* The digits ds (most significant first, in base `from`) as a number in base
\* `to`, least significant digit first.  Three digits are taken per step
\* where three are left: x * from^3 + d1 * from^2 + d2 * from + d3.
RECURSIVE Convert(_, _, _, _, _)
Convert(ds, from, to, i, acc) ==
  IF i > Len(ds) THEN acc
  ELSE IF i + 2 <= Len(ds)
       THEN Convert(ds, from, to, i + 3,
              MulAddLE(acc, to, from * from * from,
                       (ds[i] * from + ds[i + 1]) * from + ds[i + 2]))
       ELSE Convert(ds, from, to, i + 1, MulAddLE(acc, to, from, ds[i]))

Base58Valid(str) == \A i \in 1..Len(str) : IndexOf(B58Alphabet, str[i]) >= 0

\* Bitcoin.Base58.decode: defined when Base58Valid(str), throws otherwise.
\* The number's bytes, most significant first, after one zero byte per
\* leading "1".
Base58Decode(str) ==
  LET ds == [i \in 1..Len(str) |-> IndexOf(B58Alphabet, str[i])]
  IN  Rep(0, LeadingCount(str, "1")) \o Reverse(Convert(ds, B58Base, 256, 1, <<>>))

\* Bitcoin.Base58.encode / bitjs.Base58.encode: the number's Base58 digits
\* (one digit for zero), after one "1" per leading zero byte.
Base58Encode(bytes) ==
  LET le == Convert(bytes, 256, B58Base, 1, <<>>)
      digits == IF le = <<>> THEN <<0>> ELSE Reverse(le)
  IN  Rep("1", LeadingCount(bytes, 0)) \o
      [i \in 1..Len(digits) |-> B58Alphabet[digits[i] + 1]]

\* Stand-in for Crypto.SHA256(Crypto.SHA256(bytes)).slice(0, 4): four bytes
\* computed from every byte of the payload and its position.
RECURSIVE WeightedSum(_, _, _)
WeightedSum(bytes, i, acc) ==
  IF i > Len(bytes) THEN acc
  ELSE WeightedSum(bytes, i + 1, (acc * 31 + bytes[i] + i) % 65536)

Checksum(bytes) ==
  LET w == WeightedSum(bytes, 1, 7)
      u == WeightedSum(Reverse(bytes), 1, 11)
  IN  <<w % 256, w \div 256, u % 256, u \div 256>>

\* payload, checksum appended, Base58-encoded
Base58CheckEncode(payload) == Base58Encode(payload \o Checksum(payload))

(* ----------------------- program constants ---------------------------- *)

BTCpub == 0
BTCpriv == 128
FLOpub == 35
FLOpriv == 163
HexKeyLen == 64
DoubleHexKeyLen == 128
ChecksumLen == 4
CompressedKeyLen == 33
CompressionFlag == 1

\* const versions = { BTC: {...}, FLO: {...} }
versions ==
  [BTC |-> [pub |-> BTCpub, priv |-> BTCpriv],
   FLO |-> [pub |-> FLOpub, priv |-> FLOpriv]]

(* ------------------- lib.hedera.js: curve and codecs ------------------ *)

\* BigInteger.fromByteArrayUnsigned(hexToBytes(hex)): the number, as its
\* bytes without leading zeros (the empty sequence is zero)
ScalarValue(hex) == StripLeading(hexToBytes(hex), 0)

\* the order n of secp256k1, most significant byte first
CurveOrder ==
  Rep(255, 15) \o
  <<254, 186, 174, 220, 230, 175, 72, 160, 59, 191, 210, 94, 140, 208, 54, 65, 65>>

Less(a, b) ==
  \/ Len(a) < Len(b)
  \/ /\ Len(a) = Len(b)
     /\ \E i \in 1..Len(a) : a[i] < b[i] /\ \A j \in 1..(i - 1) : a[j] = b[j]

\* 1 <= scalar < n
InCurveRange(v) == v # <<>> /\ Less(v, CurveOrder)

\* The curve multiplication has no range check.  For the scalar zero the
\* product is the point at infinity, which has no coordinates: reading them
\* either throws or yields some value, depending on the library build.
ECThrows(v) == v = <<>> /\ ecZeroThrows

\* scalar * G, serialised compressed (33 bytes) or uncompressed (65 bytes)
PubKey(v, isCompressed) ==
  [form |-> IF isCompressed THEN "compressed" ELSE "uncompressed", point |-> v]

\* bitjs.newPubkey(hex): reads bitjs.compressed
newPubkey(hex) == PubKey(ScalarValue(hex), bitjs.compressed)

\* bitjs.privkey2wif(hex): reads bitjs.priv and bitjs.compressed
privkey2wif(hex) ==
  Base58CheckEncode(
    <<bitjs.priv>> \o hexToBytes(hex) \o
    (IF bitjs.compressed THEN <<CompressionFlag>> ELSE <<>>))

\* bitjs.pubkey2address(pub): Base58Check of bitjs.pub and HASH160(pub)
pubkey2address(pub) ==
  [scheme |-> "base58check", version |-> bitjs.pub, hash160 |-> pub]

\* coinjs.bech32Address(pub).address: witness version 0 over HASH160(pub)
bech32Address(pub) == [scheme |-> "bech32", version |-> 0, hash160 |-> pub]

\* ecKey.getPubKeyHex(): "04", X, Y of an uncompressed key (130 characters),
\* "02" and X of a compressed one (66).  X stands for the scalar padded to 32
\* bytes, Y for its bytes in reverse order.
PubKeyHex(pub) ==
  LET x == Rep(0, 32 - Len(pub.point)) \o pub.point
  IN  IF pub.form = "uncompressed"
      THEN <<"0", "4">> \o bytesToHex(x) \o bytesToHex(Reverse(x))
      ELSE <<"0", "2">> \o bytesToHex(x)

\* stand-in for Keccak-256: 32 bytes computed from every byte of the message
Keccak256Bytes(bytes) ==
  LET n == Len(bytes)
      half == (n + 1) \div 2
  IN  [i \in 1..32 |->
         (bytes[((i - 1) % n) + 1] + 3 * bytes[((i - 1 + half) % n) + 1]
            + 5 * bytes[((7 * i) % n) + 1] + i) % 256]

\* Web3.utils.keccak256('0x...'): '0x' and 64 lower-case hex characters
keccak256(hexText) ==
  <<"0", "x">> \o bytesToHex(Keccak256Bytes(hexToBytes(substring(hexText, 2, Len(hexText)))))

\* the hash text taken from character 24 where 26 is meant
evmAddressFrom24(pub) ==
  LET pubKeyBytes == substring(PubKeyHex(pub), 2, Len(PubKeyHex(pub)))
      hash == keccak256(<<"0", "x">> \o pubKeyBytes)
  IN  [scheme |-> "evm", keccak |-> pub,
       text |-> <<"0", "x">> \o substring(hash, 24, Len(hash))]

\* lines 149-154:
\* '0x' + Web3.utils.keccak256('0x' + pubKeyHex.substring(2)).substring(26)
evmAddressOf(pub) ==
  LET pubKeyBytes == substring(PubKeyHex(pub), 2, Len(PubKeyHex(pub)))
      hash == keccak256(<<"0", "x">> \o pubKeyBytes)
  IN  [scheme |-> "evm", keccak |-> pub,
       text |-> <<"0", "x">> \o substring(hash, 26, Len(hash))]

Placeholder(text) == [scheme |-> "placeholder", text |-> text]

Undefined == [scheme |-> "undefined"]
UndefinedText == <<"undefined">>

\* key.getBitcoinWalletImportFormat() of a compressed key
WifOf(version, hex, isCompressed) ==
  Base58CheckEncode(
    <<version>> \o hexToBytes(hex) \o
    (IF isCompressed THEN <<CompressionFlag>> ELSE <<>>))

(* ------------------------------ inputs -------------------------------- *)

ScalarOne == Rep("0", HexKeyLen - 1) \o <<"1">>
ScalarA == Rep("a", HexKeyLen)
ScalarB == Rep("1", HexKeyLen - 1) \o <<"b">>
ScalarZero == Rep("0", HexKeyLen)
ScalarMax == Rep("f", HexKeyLen)

\* the text with character i replaced by the next one of the alphabet
Corrupt(str, i) ==
  [str EXCEPT ![i] = B58Alphabet[((IndexOf(B58Alphabet, str[i]) + 1) % B58Base) + 1]]

WifA == WifOf(BTCpriv, ScalarA, TRUE)

\* a compressed WIF of version byte 0xef, which is neither chain's
TestnetWif == WifOf(239, ScalarA, TRUE)

\* a FLO address: version byte, 20 hash bytes, checksum
FloAddressText == Base58CheckEncode(<<FLOpub>> \o Rep(171, 20))

\* version byte, 36 key bytes, checksum
LongKeyText == Base58CheckEncode(<<BTCpriv>> \o Rep(0, 31) \o <<5>> \o Rep(9, 4))

NotAKey == <<"n","o","t","-","a","-","k","e","y">>

\* most blanks put before and after an input
MaxPad == 1

Padded(text) ==
  { Rep(" ", i) \o text \o Rep(" ", j) : i \in 0..MaxPad, j \in 0..MaxPad }

HexInputs ==
  { ScalarOne, ScalarA, ScalarZero, ScalarMax,
    ScalarA \o ScalarOne, ScalarOne \o ScalarMax }
  \cup Padded(ScalarA \o ScalarB)

ShortHexInputs == { <<"a","b","c">>, <<"0","0">>, Rep("a", HexKeyLen - 1) }

Base58Inputs ==
  { WifA, WifOf(FLOpriv, ScalarA, TRUE), WifOf(BTCpriv, ScalarA, FALSE),
    TestnetWif,
    Corrupt(WifA, Len(WifA)), Corrupt(WifA, 20),
    FloAddressText, LongKeyText }
  \cup Padded(WifOf(FLOpriv, ScalarOne, TRUE))

EmptyInputs == Padded(<<>>)

Inputs == HexInputs \cup ShortHexInputs \cup Base58Inputs \cup {NotAKey} \cup EmptyInputs

\* the scalars new Bitcoin.ECKey(false) may draw
RandomScalars == { ScalarB, Rep("7", HexKeyLen) }

\* Bitcoin.ECKey.privateKeyPrefix of the library build
KeyPrefixes == { BTCpriv, FLOpriv }

\* inputs of the two-caller specification
PairInputs ==
  { ScalarA, ScalarA \o ScalarOne, ScalarZero, WifA } \cup Padded(ScalarA \o ScalarB)

Callers == DOMAIN call

(* ------------------------------- state -------------------------------- *)

EmptyResult ==
  [BTC  |-> [address |-> Undefined, privateKey |-> UndefinedText],
   FLO  |-> [address |-> Undefined, privateKey |-> UndefinedText],
   HBAR |-> [evmAddress |-> Undefined, publicKey |-> Undefined,
             privateKey |-> UndefinedText, address |-> Undefined]]

Globals == [pub |-> bitjs.pub, priv |-> bitjs.priv,
            bitjsCompressed |-> bitjs.compressed,
            coinjsCompressed |-> coinjs.compressed]

IdleCall ==
  [pc |-> "idle", inputWif |-> <<>>, orig |-> [pub |-> 0, priv |-> 0,
      bitjsCompressed |-> FALSE, coinjsCompressed |-> FALSE],
   origWriter |-> "lib", privKeyHex |-> <<>>, compressed |-> TRUE,
   source |-> "none", result |-> EmptyResult]

\* sendHBAR before its first call
IdleSend ==
  [pc |-> "idle", fromPrivateKey |-> <<>>, toAddress |-> <<>>,
   amount |-> [kind |-> "number", value |-> 0], gasLimit |-> 0,
   log |-> <<>>, failedAt |-> "none", error |-> "none", success |-> FALSE]

Init ==
  /\ bitjs \in { [pub |-> FLOpub, priv |-> FLOpriv, compressed |-> FALSE],
                 [pub |-> BTCpub, priv |-> BTCpriv, compressed |-> TRUE] }
  /\ coinjs \in { [compressed |-> b] : b \in BOOLEAN }
  /\ web3Loaded \in BOOLEAN
  /\ ecZeroThrows \in BOOLEAN
  /\ writer = "lib"
  /\ call = [c \in {"c1"} |-> IdleCall]
  /\ send = IdleSend

Finished(c) == call[c].pc \in {"idle", "returned", "thrown"}

\* generateMultiChain holds no await: once entered it runs to its return or
\* throw before the event loop runs any other caller.
NoCallInProgress == \A d \in Callers : Finished(d)

\* what generateMultiChain leaves alone: the page's libraries and sendHBAR
Env == <<web3Loaded, ecZeroThrows, send>>

(* --------------------------- generateMultiChain ----------------------- *)

\* lines 61-73: the call is entered, the globals are saved, compression is set
Enter(c, w) ==
  /\ NoCallInProgress
  /\ call' = [call EXCEPT ![c] =
                [IdleCall EXCEPT !.pc = "saved", !.inputWif = w, !.orig = Globals,
                                 !.origWriter = writer]]
  /\ bitjs' = [bitjs EXCEPT !.compressed = TRUE]
  /\ coinjs' = [coinjs EXCEPT !.compressed = TRUE]
  /\ UNCHANGED <<writer, Env>>

\* lines 88-95 (and 99-104, 110-115): the key bytes of a Base58 text
KeyOfBase58(text) ==
  LET decode == Base58Decode(text)
      keyWithVersion == slice(decode, 0, Len(decode) - ChecksumLen)
      key == SubSeq(keyWithVersion, 2, Len(keyWithVersion))
  IN  IF Len(key) >= CompressedKeyLen /\ key[Len(key)] = CompressionFlag
      THEN SubSeq(key, 1, Len(key) - 1)
      ELSE key

\* lines 76 and 91-94: the local compression flag after a Base58 text was
\* read; it is assigned only where the flag byte was found
CompressedOfBase58(text, compressed) ==
  LET decode == Base58Decode(text)
      keyWithVersion == slice(decode, 0, Len(decode) - ChecksumLen)
      key == SubSeq(keyWithVersion, 2, Len(keyWithVersion))
  IN  IF Len(key) >= CompressedKeyLen /\ key[Len(key)] = CompressionFlag
      THEN TRUE
      ELSE compressed

\* the last 64 characters taken where the first 64 are meant
KeyOfHexLast(trimmedInput) ==
  IF Len(trimmedInput) = DoubleHexKeyLen
  THEN substring(trimmedInput, HexKeyLen, DoubleHexKeyLen)
  ELSE trimmedInput

\* lines 83-85: the scalar of a hex input
KeyOfHex(trimmedInput) ==
  IF Len(trimmedInput) = DoubleHexKeyLen
  THEN substring(trimmedInput, 0, HexKeyLen)
  ELSE trimmedInput

\* line 83
IsHexKey(trimmedInput) ==
  hexOnly(trimmedInput) /\ Len(trimmedInput) \in {HexKeyLen, DoubleHexKeyLen}

\* lines 20-28: generateNewID().privKey
NewKeyWifs ==
  { WifOf(v, r, TRUE) : v \in KeyPrefixes, r \in RandomScalars }

\* the input left unread: a new key is generated for every call
DecodeIgnoringInput(c) ==
  /\ call[c].pc = "saved"
  /\ \E newKey \in NewKeyWifs :
       call' = [call EXCEPT ![c].pc = "decoded", ![c].source = "generated",
                  ![c].privKeyHex = bytesToHex(KeyOfBase58(newKey))]
  /\ UNCHANGED <<bitjs, coinjs, writer, Env>>

\* lines 75-116
Decode(c) ==
  /\ call[c].pc = "saved"
  /\ LET trimmedInput == trim(call[c].inputWif)
     IN  IF Len(trimmedInput) > 0
         THEN IF IsHexKey(trimmedInput)
              THEN call' = [call EXCEPT ![c].pc = "decoded", ![c].source = "hex",
                                        ![c].privKeyHex = KeyOfHex(trimmedInput)]
              ELSE IF Base58Valid(trimmedInput)
                   THEN call' = [call EXCEPT ![c].pc = "decoded", ![c].source = "base58",
                                   ![c].privKeyHex = bytesToHex(KeyOfBase58(trimmedInput)),
                                   ![c].compressed =
                                      CompressedOfBase58(trimmedInput, call[c].compressed)]
                   ELSE \E newKey \in NewKeyWifs :
                          call' = [call EXCEPT ![c].pc = "decoded", ![c].source = "fallback",
                                     ![c].privKeyHex = bytesToHex(KeyOfBase58(newKey))]
         ELSE \E newKey \in NewKeyWifs :
                call' = [call EXCEPT ![c].pc = "decoded", ![c].source = "generated",
                           ![c].privKeyHex = bytesToHex(KeyOfBase58(newKey))]
  /\ UNCHANGED <<bitjs, coinjs, writer, Env>>

\* lines 119, 122-123
SetBTC(c) ==
  /\ call[c].pc = "decoded"
  /\ bitjs' = [bitjs EXCEPT !.pub = versions.BTC.pub, !.priv = versions.BTC.priv]
  /\ writer' = c
  /\ call' = [call EXCEPT ![c].pc = "btcSet"]
  /\ UNCHANGED <<coinjs, Env>>

\* lines 124-126; a throw of bitjs.newPubkey leaves the function there
ComputeBTC(c) ==
  /\ call[c].pc = "btcSet"
  /\ IF ECThrows(ScalarValue(call[c].privKeyHex))
     THEN call' = [call EXCEPT ![c].pc = "thrown", ![c].origWriter = "lib"]
     ELSE LET pubKeyBTC == newPubkey(call[c].privKeyHex)
          IN  call' = [call EXCEPT
                 ![c].pc = "btcDone",
                 ![c].result.BTC = [address |-> bech32Address(pubKeyBTC),
                                    privateKey |-> privkey2wif(call[c].privKeyHex)]]
  /\ UNCHANGED <<bitjs, coinjs, writer, Env>>

\* the FLO public version byte written, the private one left as it was
SetFLOPubOnly(c) ==
  /\ call[c].pc = "btcDone"
  /\ bitjs' = [bitjs EXCEPT !.pub = versions.FLO.pub]
  /\ writer' = c
  /\ call' = [call EXCEPT ![c].pc = "floSet"]
  /\ UNCHANGED <<coinjs, Env>>

\* lines 129-130
SetFLO(c) ==
  /\ call[c].pc = "btcDone"
  /\ bitjs' = [bitjs EXCEPT !.pub = versions.FLO.pub, !.priv = versions.FLO.priv]
  /\ writer' = c
  /\ call' = [call EXCEPT ![c].pc = "floSet"]
  /\ UNCHANGED <<coinjs, Env>>

\* lines 131-133; bitjs.newPubkey returned for this scalar at line 124
ComputeFLO(c) ==
  /\ call[c].pc = "floSet"
  /\ LET pubKeyFLO == newPubkey(call[c].privKeyHex)
     IN  call' = [call EXCEPT
            ![c].pc = "floDone",
            ![c].result.FLO = [address |-> pubkey2address(pubKeyFLO),
                               privateKey |-> privkey2wif(call[c].privKeyHex)]]
  /\ UNCHANGED <<bitjs, coinjs, writer, Env>>

\* line 137 and 140: the scalar of the HBAR key
HbarKeyHex(privKeyHex) == substring(privKeyHex, 0, HexKeyLen)

\* lines 136-170: Bitcoin.ECKey or Web3.utils.keccak256 throwing lands in
\* the catch block
DeriveHBAR(c) ==
  /\ call[c].pc = "floDone"
  /\ LET privKeyHex == call[c].privKeyHex
         v == ScalarValue(HbarKeyHex(privKeyHex))
     IN  IF web3Loaded /\ ~ECThrows(v)
         THEN call' = [call EXCEPT
                 ![c].pc = "hbarDone",
                 ![c].result.HBAR =
                    [evmAddress |-> evmAddressOf(PubKey(v, FALSE)),
                     publicKey |-> PubKey(v, TRUE),
                     privateKey |-> HbarKeyHex(privKeyHex),
                     address |-> evmAddressOf(PubKey(v, FALSE))]]
         ELSE call' = [call EXCEPT
                 ![c].pc = "hbarDone",
                 ![c].result.HBAR =
                    [evmAddress |-> Placeholder("Error generating address"),
                     publicKey |-> Placeholder("Error"),
                     privateKey |-> privKeyHex,
                     address |-> Placeholder("Error")]]
  /\ UNCHANGED <<bitjs, coinjs, writer, Env>>

\* lines 172-177
Return(c) ==
  /\ call[c].pc = "hbarDone"
  /\ bitjs' = [pub |-> call[c].orig.pub, priv |-> call[c].orig.priv,
               compressed |-> call[c].orig.bitjsCompressed]
  /\ coinjs' = [compressed |-> call[c].orig.coinjsCompressed]
  /\ writer' = c
  /\ call' = [call EXCEPT ![c].pc = "returned", ![c].origWriter = "lib"]
  /\ UNCHANGED Env

Next ==
  \/ \E c \in Callers :
       \E w \in (IF Cardinality(Callers) = 1 THEN Inputs ELSE PairInputs) : Enter(c, w)
  \/ \E c \in Callers : Decode(c)
  \/ \E c \in Callers : SetBTC(c)
  \/ \E c \in Callers : ComputeBTC(c)
  \/ \E c \in Callers : SetFLO(c)
  \/ \E c \in Callers : ComputeFLO(c)
  \/ \E c \in Callers : DeriveHBAR(c)
  \/ \E c \in Callers : Return(c)

\* one caller, every input
Spec == Init /\ [][Next]_vars

\* two callers
InitPair ==
  /\ bitjs = [pub |-> FLOpub, priv |-> FLOpriv, compressed |-> FALSE]
  /\ coinjs = [compressed |-> FALSE]
  /\ web3Loaded \in BOOLEAN
  /\ ecZeroThrows \in BOOLEAN
  /\ writer = "lib"
  /\ call = [c \in {"c1", "c2"} |-> IdleCall]
  /\ send = IdleSend

SpecPair == InitPair /\ [][Next]_vars

TypeOK == \A c \in Callers : call[c].pc \in
  {"idle", "saved", "decoded", "btcSet", "btcDone", "floSet", "floDone",
   "hbarDone", "returned", "thrown"}

(* ------------------------------ sendHBAR ------------------------------ *)

DefaultGasLimit == 21000
FallbackGasLimit == 800000

Digits == {"0", "1", "2", "3", "4", "5", "6", "7", "8", "9"}

\* String.prototype.startsWith
startsWith(text, prefix) ==
  Len(text) >= Len(prefix) /\ SubSeq(text, 1, Len(prefix)) = prefix

\* a recipient in EVM form and one as a Hedera Account ID
EvmRecipient == <<"0", "x">> \o Rep("c", 40)
AccountIdRecipient == <<"0", ".", "0", ".", "1", "2", "3", "4">>

\* an amount is a JavaScript number, NaN among them
Number(n) == [kind |-> "number", value |-> n]
NaN == [kind |-> "NaN"]

KeyArguments == { ScalarA, <<"a", "b", "c">>, <<>>, Rep("z", HexKeyLen) }
RecipientArguments == { EvmRecipient, AccountIdRecipient, <<>> }
AmountArguments == { Number(-1), Number(0), Number(1), Number(2), NaN }

\* what web3.eth.estimateGas may answer
GasEstimates == { DefaultGasLimit, 52001 }

\* messages of the errors the JSON-RPC relay and Web3 may raise
LibraryErrors ==
  { "insufficient funds for gas * price + value", "nonce too low",
    "intrinsic gas too low", "execution reverted" }

\* lines 389-399: the message of the error sendHBAR throws
errorMessage(message) ==
  CASE message = "insufficient funds for gas * price + value" ->
         "Insufficient balance to complete this transaction"
    [] message = "nonce too low" ->
         "Transaction nonce error. Please try again."
    [] message = "intrinsic gas too low" ->
         "Gas estimation failed. Please check the transaction details."
    [] OTHER -> message

\* amount <= 0: false for NaN, as every comparison with NaN
NotPositive(amount) == amount.kind = "number" /\ amount.value <= 0

\* lines 303-318: the message of the first check that fails, "none" if none
ValidationError(fromPrivateKey, toAddress, amount) ==
  IF fromPrivateKey = <<>> \/ Len(fromPrivateKey) # HexKeyLen
  THEN "Invalid private key format. Expected 64-character hex string."
  ELSE IF toAddress = <<>> \/ ~startsWith(toAddress, <<"0", "x">>)
  THEN "Invalid recipient address. Expected EVM address (0x...)"
  ELSE IF NotPositive(amount)
  THEN "Amount must be greater than 0"
  ELSE IF ~web3Loaded
  THEN "Web3.js is required for sending transactions"
  ELSE "none"

\* web3.eth.accounts.privateKeyToAccount throws for a key that is not hex
AccountThrows(fromPrivateKey) == ~hexOnly(fromPrivateKey)

\* web3.utils.toWei(amountString, 'ether') throws for the text "NaN"
ToWeiThrows(amount) == amount.kind = "NaN"

\* lines 386-399: the error leaves sendHBAR through the outer catch
Thrown(step, message) ==
  [send EXCEPT !.pc = "thrown", !.failedAt = step, !.error = errorMessage(message)]

Logged(op, ok) == Append(send.log, [op |-> op, ok |-> ok])

CryptoVars == <<bitjs, coinjs, web3Loaded, ecZeroThrows, writer, call>>

\* line 298
CallSend(fromPrivateKey, toAddress, amount) ==
  /\ send.pc \in {"idle", "returned", "thrown"}
  /\ send' = [IdleSend EXCEPT !.pc = "called", !.fromPrivateKey = fromPrivateKey,
                              !.toAddress = toAddress, !.amount = amount]
  /\ UNCHANGED CryptoVars

\* the checks of recipient and amount left out
ValidateKeyOnly ==
  /\ send.pc = "called"
  /\ IF send.fromPrivateKey = <<>> \/ Len(send.fromPrivateKey) # HexKeyLen
     THEN send' = Thrown("validation",
                    "Invalid private key format. Expected 64-character hex string.")
     ELSE IF ~web3Loaded
          THEN send' = Thrown("validation", "Web3.js is required for sending transactions")
          ELSE IF AccountThrows(send.fromPrivateKey)
               THEN send' = Thrown("privateKeyToAccount", "Invalid Private Key")
               ELSE send' = [send EXCEPT !.pc = "validated"]
  /\ UNCHANGED CryptoVars

\* lines 300-326: the checks, the Web3 instance, the account of the key
Validate ==
  /\ send.pc = "called"
  /\ LET message == ValidationError(send.fromPrivateKey, send.toAddress, send.amount)
     IN  IF message # "none"
         THEN send' = Thrown("validation", message)
         ELSE IF AccountThrows(send.fromPrivateKey)
              THEN send' = Thrown("privateKeyToAccount", "Invalid Private Key")
              ELSE send' = [send EXCEPT !.pc = "validated"]
  /\ UNCHANGED CryptoVars

\* line 330
GetGasPrice ==
  /\ send.pc = "validated"
  /\ \/ send' = [send EXCEPT !.pc = "priced", !.log = Logged("getGasPrice", TRUE)]
     \/ \E message \in LibraryErrors :
          send' = [Thrown("getGasPrice", message) EXCEPT
                     !.log = Logged("getGasPrice", FALSE)]
  /\ UNCHANGED CryptoVars

\* lines 333-341: the nonce, the amount in wei, the default gas limit
GetTransactionCount ==
  /\ send.pc = "priced"
  /\ \/ IF ToWeiThrows(send.amount)
        THEN send' = [Thrown("toWei", "invalid number value") EXCEPT
                        !.log = Logged("getTransactionCount", TRUE)]
        ELSE send' = [send EXCEPT !.pc = "converted", !.gasLimit = DefaultGasLimit,
                                  !.log = Logged("getTransactionCount", TRUE)]
     \/ \E message \in LibraryErrors :
          send' = [Thrown("getTransactionCount", message) EXCEPT
                     !.log = Logged("getTransactionCount", FALSE)]
  /\ UNCHANGED CryptoVars

\* lines 344-356: Math.floor(estimatedGas * 1.2), or the high limit where the
\* estimation failed
EstimateGas ==
  /\ send.pc = "converted"
  /\ \/ \E estimatedGas \in GasEstimates :
          send' = [send EXCEPT !.pc = "estimated",
                               !.gasLimit = (estimatedGas * 12) \div 10,
                               !.log = Logged("estimateGas", TRUE)]
     \/ send' = [send EXCEPT !.pc = "estimated", !.gasLimit = FallbackGasLimit,
                             !.log = Logged("estimateGas", FALSE)]
  /\ UNCHANGED CryptoVars

\* lines 359-371
SignTransaction ==
  /\ send.pc = "estimated"
  /\ \/ send' = [send EXCEPT !.pc = "signed", !.log = Logged("signTransaction", TRUE)]
     \/ send' = [Thrown("signTransaction", "execution reverted") EXCEPT
                   !.log = Logged("signTransaction", FALSE)]
  /\ UNCHANGED CryptoVars

\* lines 374-385
SendSignedTransaction ==
  /\ send.pc = "signed"
  /\ \/ send' = [send EXCEPT !.pc = "returned", !.success = TRUE,
                             !.log = Logged("sendSignedTransaction", TRUE)]
     \/ \E message \in LibraryErrors :
          send' = [Thrown("sendSignedTransaction", message) EXCEPT
                     !.log = Logged("sendSignedTransaction", FALSE)]
  /\ UNCHANGED CryptoVars

NextSend ==
  \/ \E k \in KeyArguments, to \in RecipientArguments, a \in AmountArguments :
       CallSend(k, to, a)
  \/ Validate
  \/ GetGasPrice
  \/ GetTransactionCount
  \/ EstimateGas
  \/ SignTransaction
  \/ SendSignedTransaction

InitSend ==
  /\ bitjs = [pub |-> FLOpub, priv |-> FLOpriv, compressed |-> FALSE]
  /\ coinjs = [compressed |-> FALSE]
  /\ web3Loaded \in BOOLEAN
  /\ ecZeroThrows = FALSE
  /\ writer = "lib"
  /\ call = [c \in {"c1"} |-> IdleCall]
  /\ send = IdleSend

\* sendHBAR alone
SpecSend == InitSend /\ [][NextSend]_vars

(* ------------------------------ claims -------------------------------- *)

\* the input of caller c as the decoder sees it
Trimmed(c) == trim(call[c].inputWif)

\* the decoder has run for caller c's current call
Decoded(c) == call[c].pc \notin {"idle", "saved"}

\* the text is Base58 whose last four bytes are the checksum of the rest
ChecksumHolds(text) ==
  /\ Base58Valid(text)
  /\ LET d == Base58Decode(text)
     IN  /\ Len(d) > ChecksumLen
         /\ SubSeq(d, Len(d) - ChecksumLen + 1, Len(d))
              = Checksum(SubSeq(d, 1, Len(d) - ChecksumLen))

\* a non-empty input that is neither 64 or 128 hex characters nor a
\* Base58Check text
Malformed(text) ==
  /\ Len(text) > 0
  /\ ~(hexOnly(text) /\ Len(text) \in {HexKeyLen, DoubleHexKeyLen})
  /\ ~ChecksumHolds(text)

\* C1: a call with a malformed non-empty input returns no wallet, and no
\* freshly generated key takes the place of the rejected input.
C1_MalformedInputRejected ==
  \A c \in Callers :
    (Decoded(c) /\ Malformed(Trimmed(c))) =>
      (call[c].pc # "returned" /\ call[c].source # "fallback")

\* "not-a-key" came back as the wallet of a generated key
C1_Witness ==
  \E c \in Callers :
    /\ Trimmed(c) = NotAKey
    /\ call[c].pc = "returned"
    /\ call[c].source = "fallback"
    /\ call[c].privKeyHex \in RandomScalars

\* a Base58 text, not read as hex, whose checksum bytes are wrong
ChecksumFails(text) ==
  /\ Len(text) > 0
  /\ ~(hexOnly(text) /\ Len(text) \in {HexKeyLen, DoubleHexKeyLen})
  /\ Base58Valid(text)
  /\ ~ChecksumHolds(text)

\* C2: a Base58Check input whose checksum does not match never yields a
\* scalar or a wallet.
C2_ChecksumMismatchRejected ==
  \A c \in Callers :
    (Decoded(c) /\ ChecksumFails(Trimmed(c))) =>
      (call[c].source # "base58" /\ call[c].pc # "returned")

\* a WIF with its last character changed came back as a wallet
C2_Witness ==
  \E c \in Callers :
    /\ Trimmed(c) = Corrupt(WifA, Len(WifA))
    /\ ChecksumFails(Trimmed(c))
    /\ call[c].pc = "returned"
    /\ call[c].source = "base58"

\* C3: a hex-only input of a length other than 64 and 128 is never read in
\* another encoding and never produces a wallet.
C3_HexLengthRejected ==
  \A c \in Callers :
    (Decoded(c) /\ hexOnly(Trimmed(c))
       /\ Len(Trimmed(c)) \notin {HexKeyLen, DoubleHexKeyLen}) =>
      (call[c].source \notin {"base58", "fallback"} /\ call[c].pc # "returned")

\* "abc" was read as Base58 and came back as a wallet
C3_Witness ==
  \E c \in Callers :
    /\ Trimmed(c) = <<"a", "b", "c">>
    /\ call[c].pc = "returned"
    /\ call[c].source = "base58"

\* where a chain's address and WIF are about to be computed, the version
\* bytes and the compression setting in effect are that chain's own and were
\* written by the derivation that computes
OwnConfigurationInEffect ==
  \A c \in Callers :
    /\ call[c].pc = "btcSet" =>
         /\ bitjs.pub = BTCpub /\ bitjs.priv = BTCpriv /\ bitjs.compressed
         /\ writer = c
    /\ call[c].pc = "floSet" =>
         /\ bitjs.pub = FLOpub /\ bitjs.priv = FLOpriv /\ bitjs.compressed
         /\ writer = c

\* the version bytes a derivation reads at lines 67-68 were written by the
\* library or by the same caller, never by another caller's derivation
ReadsNoForeignConfiguration ==
  \A c \in Callers :
    ~Finished(c) => call[c].origWriter \in {"lib", c}

\* C4: calls never observe each other's chain configuration: each chain's
\* outputs are computed under that chain's own version bytes, and no
\* derivation reads version configuration another derivation wrote.
C4_NoSharedConfiguration ==
  OwnConfigurationInEffect /\ ReadsNoForeignConfiguration

\* a caller has read, as the values to restore, the BTC version bytes that
\* another caller's thrown call left in the globals, and computes under its own
C4_Witness ==
  \E c, d \in Callers :
    /\ c # d
    /\ call[c].pc = "floSet"
    /\ call[d].pc = "thrown"
    /\ call[c].origWriter = d
    /\ call[c].orig.pub = BTCpub /\ call[c].orig.priv = BTCpriv

IsPlaceholder(x) == x.scheme \in {"placeholder", "undefined"}

\* C5: every returned wallet is complete: no chain entry holds an error
\* placeholder or lacks a field.
C5_NoPartialWallet ==
  \A c \in Callers :
    call[c].pc = "returned" =>
      LET r == call[c].result
      IN  /\ ~IsPlaceholder(r.BTC.address) /\ r.BTC.privateKey # UndefinedText
          /\ ~IsPlaceholder(r.FLO.address) /\ r.FLO.privateKey # UndefinedText
          /\ ~IsPlaceholder(r.HBAR.address) /\ ~IsPlaceholder(r.HBAR.evmAddress)
          /\ r.HBAR.publicKey.form = "compressed"

\* a valid key came back with the HBAR entry holding the error texts
C5_Witness ==
  \E c \in Callers :
    /\ Trimmed(c) = ScalarA
    /\ call[c].pc = "returned"
    /\ call[c].result.HBAR.address = Placeholder("Error")
    /\ ~IsPlaceholder(call[c].result.BTC.address)

\* C6: in every returned wallet the BTC, FLO and HBAR entries come from one
\* scalar.
C6_OneScalarForAllChains ==
  \A c \in Callers :
    (call[c].pc = "returned" /\ ~IsPlaceholder(call[c].result.HBAR.address)) =>
      LET r == call[c].result
      IN  /\ DOMAIN r = {"BTC", "FLO", "HBAR"}
          /\ r.BTC.address.hash160.point = r.HBAR.publicKey.point
          /\ r.FLO.address.hash160.point = r.HBAR.publicKey.point
          /\ r.HBAR.address.keccak.point = r.HBAR.publicKey.point

\* a Base58Check text with a 36-byte key came back with BTC and HBAR entries
\* of different scalars
C6_Witness ==
  \E c \in Callers :
    /\ Trimmed(c) = LongKeyText
    /\ call[c].pc = "returned"
    /\ ~IsPlaceholder(call[c].result.HBAR.address)
    /\ call[c].result.BTC.address.hash160.point
         # call[c].result.HBAR.publicKey.point

\* C7: the scalar the decoder hands on is 32 bytes, 64 hex characters.
C7_ScalarIs32Bytes ==
  \A c \in Callers :
    call[c].pc \in {"decoded", "btcSet", "btcDone", "floSet", "floDone",
                    "hbarDone", "returned"} =>
      Len(call[c].privKeyHex) = HexKeyLen

\* a FLO address came back as the wallet of a 20-byte scalar
C7_Witness ==
  \E c \in Callers :
    /\ Trimmed(c) = FloAddressText
    /\ call[c].pc = "returned"
    /\ Len(call[c].privKeyHex) = 40

\* the private-key version bytes of the chains that have a WIF
ExpectedPrivVersions == {BTCpriv, FLOpriv}

\* C8: a Base58 text yields a scalar only if its leading byte is a supported
\* private-key version byte.
C8_VersionByteChecked ==
  \A c \in Callers :
    (Decoded(c) /\ call[c].source = "base58") =>
      LET d == Base58Decode(Trimmed(c))
      IN  Len(d) > 0 /\ d[1] \in ExpectedPrivVersions

\* a WIF with version byte 0xef came back as the wallet of its scalar
C8_Witness ==
  \E c \in Callers :
    /\ Trimmed(c) = TestnetWif
    /\ call[c].pc = "returned"
    /\ call[c].privKeyHex = ScalarA

\* C9: a public key is derived only from a scalar in [1, n-1].
C9_ScalarInCurveRange ==
  \A c \in Callers :
    call[c].pc \in {"btcDone", "floSet", "floDone", "hbarDone", "returned"} =>
      InCurveRange(ScalarValue(call[c].privKeyHex))

\* 64 times "f", a scalar above n, came back as a wallet
C9_Witness ==
  \E c \in Callers :
    /\ Trimmed(c) = ScalarMax
    /\ ~InCurveRange(ScalarValue(call[c].privKeyHex))
    /\ call[c].pc = "returned"

\* C10: two returned calls whose hex inputs agree on the first 64 characters
\* return equal wallets, whatever the last 64 characters of a 128-character
\* input are.
C10_Last64HaveNoInfluence ==
  \A c, d \in Callers :
    ( /\ c # d
      /\ call[c].pc = "returned" /\ call[d].pc = "returned"
      /\ IsHexKey(Trimmed(c)) /\ IsHexKey(Trimmed(d))
      /\ Len(Trimmed(c)) = DoubleHexKeyLen
      /\ substring(Trimmed(c), 0, HexKeyLen) = substring(Trimmed(d), 0, HexKeyLen) )
    => call[c].result = call[d].result

\* one caller returned for s followed by another 64 characters, the other
\* for s alone
C10_Witness ==
  \E c, d \in Callers :
    /\ call[c].pc = "returned" /\ call[d].pc = "returned"
    /\ Trimmed(c) = ScalarA \o ScalarB
    /\ Trimmed(d) = ScalarA
    /\ call[c].result.BTC.privateKey # UndefinedText

\* the scalar and the compression flag a Base58Check text carries as a WIF:
\* version byte, 32 key bytes, the byte 0x01 if compressed, checksum
WifPayload(text) ==
  LET d == Base58Decode(text) IN SubSeq(d, 1, Len(d) - ChecksumLen)

\* a WIF of any version byte
HasWifForm(text) ==
  /\ ChecksumHolds(text)
  /\ LET p == WifPayload(text)
     IN  \/ Len(p) = CompressedKeyLen
         \/ Len(p) = CompressedKeyLen + 1 /\ p[Len(p)] = CompressionFlag

IsWif(text) == HasWifForm(text) /\ WifPayload(text)[1] \in ExpectedPrivVersions

WifScalar(text) == bytesToHex(SubSeq(WifPayload(text), 2, CompressedKeyLen))

WifFlag(text) == Len(WifPayload(text)) = CompressedKeyLen + 1

\* the input is 64 or 128 hex characters or a WIF, and its scalar is in
\* [1, n-1]
ValidKeyInput(text) ==
  \/ IsHexKey(text) /\ InCurveRange(ScalarValue(KeyOfHex(text)))
  \/ ~IsHexKey(text) /\ IsWif(text) /\ InCurveRange(ScalarValue(WifScalar(text)))

\* C11: two returned calls with the same input of a valid scalar hold equal
\* wallets, whatever the globals held when each call started and whatever
\* calls ran in between.
C11_SameInputSameWallet ==
  \A c, d \in Callers :
    ( /\ c # d
      /\ call[c].pc = "returned" /\ call[d].pc = "returned"
      /\ call[c].inputWif = call[d].inputWif
      /\ ValidKeyInput(Trimmed(c)) )
    => call[c].result = call[d].result

\* two callers returned for the same key, one having started from the
\* library's settings, the other from the settings a thrown call left behind
C11_Witness ==
  \E c, d \in Callers :
    /\ c # d
    /\ call[c].pc = "returned" /\ call[d].pc = "returned"
    /\ call[c].inputWif = call[d].inputWif
    /\ ValidKeyInput(Trimmed(c))
    /\ call[c].orig # call[d].orig
    /\ call[c].result.BTC.privateKey = WifA

\* C12: decoding the WIF of (s, v, c) gives back s and c, for compressed and
\* for uncompressed keys.
C12_WifRoundTrip ==
  \A c \in Callers :
    (Decoded(c) /\ call[c].source = "base58" /\ HasWifForm(Trimmed(c))) =>
      /\ call[c].privKeyHex = WifScalar(Trimmed(c))
      /\ call[c].compressed = WifFlag(Trimmed(c))

\* the uncompressed WIF of a key was read as a compressed key, and the wallet
\* holds the compressed WIF in place of the text that was put in
C12_Witness ==
  \E c \in Callers :
    /\ Trimmed(c) = WifOf(BTCpriv, ScalarA, FALSE)
    /\ call[c].pc = "returned"
    /\ call[c].privKeyHex = ScalarA
    /\ ~WifFlag(Trimmed(c))
    /\ call[c].compressed
    /\ call[c].result.BTC.privateKey = WifA

BtcEntryDone(r) == r.BTC.privateKey # UndefinedText /\ r.BTC.address # Undefined
FloEntryDone(r) == r.FLO.privateKey # UndefinedText /\ r.FLO.address # Undefined
HbarEntryDone(r) == r.HBAR.privateKey # UndefinedText /\ r.HBAR.address # Undefined

C14_EvmAddressOfPublicKey ==
  \A c \in Callers :
    (call[c].pc = "returned" /\ ~IsPlaceholder(call[c].result.HBAR.evmAddress)) =>
      LET r == call[c].result.HBAR
          pubBytes == hexToBytes(PubKeyHex(PubKey(r.publicKey.point, FALSE)))
          h == Keccak256Bytes(SubSeq(pubBytes, 2, Len(pubBytes)))
      IN  /\ r.address = r.evmAddress
          /\ Len(pubBytes) = 65 /\ pubBytes[1] = 4
          /\ r.address.text = <<"0", "x">> \o bytesToHex(SubSeq(h, Len(h) - 19, Len(h)))
          /\ Len(r.address.text) = 42
          /\ \A i \in 3..Len(r.address.text) : r.address.text[i] \in Range(HexLower)

\* a wallet came back with the 42-character address of its key
C14_Witness ==
  \E c \in Callers :
    /\ call[c].pc = "returned"
    /\ Trimmed(c) = ScalarA
    /\ call[c].result.HBAR.evmAddress.scheme = "evm"
    /\ Len(call[c].result.HBAR.evmAddress.text) = 42
    /\ call[c].result.HBAR.publicKey.point = hexToBytes(ScalarA)

\* /^\d+\.\d+\.\d+$/ : three runs of digits with a dot between them
IsAccountId(text) ==
  /\ Len(text) > 0
  /\ \A i \in 1..Len(text) : text[i] \in Digits \cup {"."}
  /\ Cardinality({i \in 1..Len(text) : text[i] = "."}) = 2
  /\ text[1] # "." /\ text[Len(text)] # "."
  /\ \A i \in 1..(Len(text) - 1) : ~(text[i] = "." /\ text[i + 1] = ".")

\* sendHBAR has worked on its arguments
SendStarted == send.pc \notin {"idle", "called"}

\* C15: a call whose recipient is an Account ID and whose other arguments are
\* valid is not rejected by the validation: it goes on to the network.
C15_AccountIdRecipientAccepted ==
  ( /\ SendStarted
    /\ IsAccountId(send.toAddress)
    /\ ValidationError(send.fromPrivateKey, EvmRecipient, send.amount) = "none"
    /\ ~AccountThrows(send.fromPrivateKey) /\ ~ToWeiThrows(send.amount) )
  => /\ send.failedAt # "validation"
     /\ send.log # <<>>

\* the Account ID 0.0.1234 was rejected before any request went out
C15_Witness ==
  /\ send.toAddress = AccountIdRecipient
  /\ send.fromPrivateKey = ScalarA
  /\ send.amount = Number(1)
  /\ web3Loaded
  /\ send.pc = "thrown"
  /\ send.failedAt = "validation"
  /\ send.error = "Invalid recipient address. Expected EVM address (0x...)"
  /\ send.log = <<>>

\* the requests and the signing, in the order of the code
SendSteps ==
  <<"getGasPrice", "getTransactionCount", "estimateGas", "signTransaction",
    "sendSignedTransaction">>

\* C16: validation, gas estimation, signing, broadcast happen in this order:
\* nothing goes to the network where a validation check fails, signing happens
\* after the gas limit was fixed, the broadcast happens at most once and after
\* a signing that succeeded, and success is reported after the broadcast
\* returned its receipt.
C16_StepsInOrder ==
  LET log == send.log
      n == Len(log)
  IN  /\ n <= Len(SendSteps)
      /\ \A i \in 1..n : log[i].op = SendSteps[i]
      /\ \A i \in 1..(n - 1) : log[i].ok \/ log[i].op = "estimateGas"
      /\ (SendStarted /\ ValidationError(send.fromPrivateKey, send.toAddress,
                                         send.amount) # "none") =>
           (n = 0 /\ send.pc = "thrown" /\ send.failedAt = "validation")
      /\ (\E i \in 1..n : log[i].op = "signTransaction") =>
           send.gasLimit \in {FallbackGasLimit} \cup
                             {(e * 12) \div 10 : e \in GasEstimates}
      /\ Cardinality({i \in 1..n : log[i].op = "sendSignedTransaction"}) <= 1
      /\ send.success <=>
           (send.pc = "returned" /\ n = Len(SendSteps) /\ log[n].ok)

\* a transfer went through all five steps and reported success
C16_Witness ==
  /\ send.pc = "returned"
  /\ send.success
  /\ Len(send.log) = Len(SendSteps)
  /\ send.log[3] = [op |-> "estimateGas", ok |-> TRUE]
  /\ send.toAddress = EvmRecipient

\* C17: where a call of generateMultiChain has ended, by return or by throw,
\* bitjs.pub, bitjs.priv, bitjs.compressed and coinjs.compressed hold the
\* values they held when the call started.
C17_GlobalsRestoredOnEveryExit ==
  \A c \in Callers :
    (call[c].pc \in {"returned", "thrown"} /\ NoCallInProgress /\ writer \in {c, "lib"}) =>
      Globals = call[c].orig

\* a call threw at line 124 and left BTC's version bytes and the forced
\* compression in the globals
C17_Witness ==
  \E c \in Callers :
    /\ call[c].pc = "thrown"
    /\ Trimmed(c) = ScalarZero
    /\ call[c].orig.pub = FLOpub /\ bitjs.pub = BTCpub
    /\ call[c].orig.priv = FLOpriv /\ bitjs.priv = BTCpriv
    /\ ~call[c].orig.bitjsCompressed /\ bitjs.compressed

\* the steps whose failure the claim allows to prevent a broadcast: the
\* validation (the account of the key counted with it), the retrieval of gas
\* price and nonce, the signing
AllowedFailures ==
  {"validation", "privateKeyToAccount", "getGasPrice", "getTransactionCount",
   "signTransaction"}

\* C18: a failed gas estimation never ends the call: the gas limit is 800000
\* after a failed estimation and the estimate plus 20% after one that
\* succeeded, signing and broadcast follow, and a call that ended without a
\* broadcast failed in validation, gas-price or nonce retrieval, or signing.
C18_OnlyListedFailuresPreventBroadcast ==
  LET log == send.log
      n == Len(log)
  IN  /\ send.failedAt # "estimateGas"
      /\ (n >= 3 /\ ~log[3].ok) => send.gasLimit = FallbackGasLimit
      /\ (n >= 3 /\ log[3].ok) =>
           send.gasLimit \in {(e * 12) \div 10 : e \in GasEstimates}
      /\ (send.pc = "thrown" /\ n < Len(SendSteps)) =>
           send.failedAt \in AllowedFailures

\* the amount NaN passed the validation, gas price and nonce were fetched,
\* and the call ended at the conversion to wei, nothing signed or broadcast
C18_Witness ==
  /\ send.pc = "thrown"
  /\ send.amount = NaN
  /\ send.fromPrivateKey = ScalarA /\ send.toAddress = EvmRecipient
  /\ send.failedAt = "toWei"
  /\ send.log = <<[op |-> "getGasPrice", ok |-> TRUE],
                  [op |-> "getTransactionCount", ok |-> TRUE]>>

====
